---------------------------- MODULE Spec2Model ----------------------------
(***************************************************************************)
(* A model of pumlck (src/src/main.rs, src/src/puml_validator.rs): the     *)
(* section extractor PumlFile::new, the pattern rule engine                *)
(* Puml::validate_pattern, the block matcher Puml::validate_open_close,    *)
(* the section validator Puml::validate and the reporter print_errors.     *)
(*                                                                         *)
(* Text is kept as TLA+ strings; a character is a string of length one.    *)
(* Line numbers are 0-based as in the code (enumerate), so line number n   *)
(* of a section is lines[n + 1].                                           *)
(***************************************************************************)
EXTENDS Integers, Sequences, FiniteSets, TLC

(***************************************************************************)
(* Text helpers: str::trim and str::starts_with.                           *)
(***************************************************************************)
Whitespace == {" ", "\t"}

CharAt(s, i) == SubSeq(s, i, i)

RECURSIVE TrimStart(_)
TrimStart(s) ==
    IF Len(s) > 0 /\ CharAt(s, 1) \in Whitespace
    THEN TrimStart(SubSeq(s, 2, Len(s)))
    ELSE s

RECURSIVE TrimEnd(_)
TrimEnd(s) ==
    IF Len(s) > 0 /\ CharAt(s, Len(s)) \in Whitespace
    THEN TrimEnd(SubSeq(s, 1, Len(s) - 1))
    ELSE s

trim(s) == TrimEnd(TrimStart(s))

starts_with(s, prefix) ==
    Len(s) >= Len(prefix) /\ SubSeq(s, 1, Len(prefix)) = prefix

(***************************************************************************)
(* Regular expressions (the regex crate, as used through Regex::new and    *)
(* Regex::is_match).  A pattern is a syntax tree; Ends(re, s, i) is the    *)
(* set of offsets j such that re matches s from offset i to offset j.      *)
(* is_match is an unanchored search, and a lazy quantifier accepts the     *)
(* same texts as the greedy one.                                           *)
(***************************************************************************)
Chr(c) == [t |-> "chr", c |-> c]
NotIn(cs) == [t |-> "notin", cs |-> cs]
In(cs) == [t |-> "in", cs |-> cs]
AnyChar == NotIn({"\n"})
Cat(rs) == [t |-> "cat", rs |-> rs]
Alt(rs) == [t |-> "alt", rs |-> rs]
Star(r) == [t |-> "star", r |-> r]
Plus(r) == Cat(<<r, Star(r)>>)
Opt(r) == Alt(<<r, Cat(<<>>)>>)
Bol == [t |-> "bol"]
Eol == [t |-> "eol"]
WordBoundary == [t |-> "wb"]
Lit(s) == Cat([i \in 1..Len(s) |-> Chr(CharAt(s, i))])
Space == In(Whitespace)

WordChars ==
    {"a", "b", "c", "d", "e", "f", "g", "h", "i", "j", "k", "l", "m",
     "n", "o", "p", "q", "r", "s", "t", "u", "v", "w", "x", "y", "z",
     "0", "1", "2", "3", "4", "5", "6", "7", "8", "9", "_"}

IsWordAt(s, i) == i >= 1 /\ i <= Len(s) /\ CharAt(s, i) \in WordChars

RECURSIVE Ends(_, _, _)
RECURSIVE CatEnds(_, _, _, _)
RECURSIVE StarEnds(_, _, _)

CatEnds(rs, k, s, from) ==
    IF k > Len(rs) \/ from = {} THEN from
    ELSE CatEnds(rs, k + 1, s, UNION {Ends(rs[k], s, j) : j \in from})

StarEnds(r, s, reached) ==
    LET more == reached \cup UNION {Ends(r, s, j) : j \in reached}
    IN  IF more = reached THEN reached ELSE StarEnds(r, s, more)

Ends(re, s, i) ==
    CASE re.t = "chr" ->
            IF i < Len(s) /\ CharAt(s, i + 1) = re.c THEN {i + 1} ELSE {}
      [] re.t = "in" ->
            IF i < Len(s) /\ CharAt(s, i + 1) \in re.cs THEN {i + 1} ELSE {}
      [] re.t = "notin" ->
            IF i < Len(s) /\ CharAt(s, i + 1) \notin re.cs THEN {i + 1} ELSE {}
      [] re.t = "bol" -> IF i = 0 THEN {i} ELSE {}
      [] re.t = "eol" -> IF i = Len(s) THEN {i} ELSE {}
      [] re.t = "wb" ->
            IF IsWordAt(s, i) # IsWordAt(s, i + 1) THEN {i} ELSE {}
      [] re.t = "cat" -> CatEnds(re.rs, 1, s, {i})
      [] re.t = "alt" -> UNION {Ends(re.rs[k], s, i) : k \in 1..Len(re.rs)}
      [] re.t = "star" -> StarEnds(re.r, s, {i})

is_match(re, s) == \E i \in 0..Len(s) : Ends(re, s, i) # {}


(***************************************************************************)
(* The patterns of Puml::validate, transcribed from the source literals.   *)
(***************************************************************************)
\* \([^)]*\)
Paren == Cat(<<Chr("("), Star(NotIn({")"})), Chr(")")>>)
\* \((.*?)\)
ParenAny == Cat(<<Chr("("), Star(AnyChar), Chr(")")>>)

Some(re) == [some |-> TRUE, re |-> re]
None == [some |-> FALSE]

\* A variant of MissingColonRule that wants the ':' at the start of the line.
MissingColonRule_Anchored ==
    [kind |-> "pattern",
     simple_pattern |-> Cat(<<Star(NotIn({";"})), Chr(";"), Eol>>),
     validation_pattern |->
         Cat(<<Bol, Chr(":"), Star(NotIn({";"})), Chr(";")>>),
     msg |-> "missing ':' at the beginning of the line (doesnt check multiline)"]

\* validate missing ':'   r"[^;]*?;$"  and  r":[^;]*?;"
MissingColonRule ==
    [kind |-> "pattern",
     simple_pattern |-> Cat(<<Star(NotIn({";"})), Chr(";"), Eol>>),
     validation_pattern |-> Cat(<<Chr(":"), Star(NotIn({";"})), Chr(";")>>),
     msg |-> "missing ':' at the beginning of the line (doesnt check multiline)"]

\* validate missing ';'   r":[^;]*?"  and  r":[^;]*?;$"
MissingSemicolonRule ==
    [kind |-> "pattern",
     simple_pattern |-> Cat(<<Chr(":"), Star(NotIn({";"}))>>),
     validation_pattern |->
         Cat(<<Chr(":"), Star(NotIn({";"})), Chr(";"), Eol>>),
     msg |-> "missing ';' at the end of the line (doesnt check multiline)"]

\* validate if else endif
IfConstruct ==
    [kind |-> "open_close",
     open |-> Cat(<<Bol, Lit("if"), Star(Space), Paren, Star(Space),
                    Lit("then"), Star(Space), Paren>>),
     middle |-> Some(Cat(<<Bol,
                   Alt(<<Cat(<<Lit("else"), Star(Space), Paren>>),
                         Cat(<<Opt(Paren), Star(Space), Lit("elseif"),
                               Star(Space), Opt(Paren), Star(Space),
                               Lit("then"), Star(Space), Opt(Paren)>>)>>)>>)),
     close |-> Cat(<<Bol, Lit("endif")>>),
     open_text |-> "if (*) then (*)",
     close_text |-> "endif"]

\* validate switch
SwitchConstruct ==
    [kind |-> "open_close",
     open |-> Cat(<<Bol, Lit("switch"), Star(Space), ParenAny>>),
     middle |-> Some(Cat(<<Bol, Lit("case"), Star(Space), ParenAny>>)),
     close |-> Cat(<<Bol, Lit("endswitch"), Eol>>),
     open_text |-> "switch (*)",
     close_text |-> "endswitch"]

\* validate repeat while
RepeatConstruct ==
    [kind |-> "open_close",
     open |-> Cat(<<Bol, Lit("repeat"), WordBoundary>>),
     middle |-> None,
     close |-> Cat(<<Bol, Lit("repeat"), Plus(Space), Lit("while"),
                     Star(Space), ParenAny, Plus(Space), Lit("is"),
                     Plus(Space), Star(AnyChar)>>),
     open_text |-> "repeat",
     close_text |-> "repeat while (*) is (*)"]

\* validate while
WhileConstruct ==
    [kind |-> "open_close",
     open |-> Cat(<<Bol, Lit("while"), Star(Space), ParenAny>>),
     middle |-> None,
     close |-> Cat(<<Bol, Lit("endwhile"), Star(Space), ParenAny>>),
     open_text |-> "while (*) [is (*)]",
     close_text |-> "endwhile [(*)]"]

\* validate fork
ForkConstruct ==
    [kind |-> "open_close",
     open |-> Cat(<<Bol, Lit("fork")>>),
     middle |-> Some(Cat(<<Bol, Lit("fork again"), Eol>>)),
     close |-> Alt(<<Cat(<<Bol, Lit("end fork")>>),
                     Cat(<<Bol, Lit("end merge")>>)>>),
     open_text |-> "fork",
     close_text |-> "end fork|end merge"]

\* validate split
SplitConstruct ==
    [kind |-> "open_close",
     open |-> Cat(<<Bol, Lit("split")>>),
     middle |-> Some(Cat(<<Bol, Lit("fork again"), Eol>>)),
     close |-> Cat(<<Bol, Lit("end split")>>),
     open_text |-> "split",
     close_text |-> "end split"]

\* The calls of Puml::validate, in their order; the sort follows the last.
Checks ==
    <<MissingColonRule, MissingSemicolonRule, IfConstruct, SwitchConstruct,
      RepeatConstruct, WhileConstruct, ForkConstruct, SplitConstruct>>

NumChecks == Len(Checks)

\* format!("<- {}", msg)
PatternMsg(msg) == "<- " \o msg
\* format!("<- no opening {} found", open_text)
NoOpeningMsg(open_text) == "<- no opening " \o open_text \o " found"
\* format!("<- no closing {} found", close_text)
NoClosingMsg(close_text) == "<- no closing " \o close_text \o " found"

PumlErr(line_number, msg) == [line_number |-> line_number, msg |-> msg]

\* Puml::new
Puml_new == [starting_line |-> 0, lines |-> <<>>, errors |-> <<>>]

(***************************************************************************)
(* self.errors.sort_by(|a, b| a.line_number.cmp(&b.line_number)): a stable *)
(* sort, computed by insertion behind the last entry that is not greater.  *)
(***************************************************************************)
\* A variant of InsertErr that puts an entry before its equals.
RECURSIVE InsertErr_BeforeEquals(_, _)
InsertErr_BeforeEquals(sorted, e) ==
    IF sorted = <<>> THEN <<e>>
    ELSE IF sorted[Len(sorted)].line_number < e.line_number
         THEN Append(sorted, e)
         ELSE Append(InsertErr_BeforeEquals(
                         SubSeq(sorted, 1, Len(sorted) - 1), e),
                     sorted[Len(sorted)])

RECURSIVE InsertErr(_, _)
InsertErr(sorted, e) ==
    IF sorted = <<>> THEN <<e>>
    ELSE IF sorted[Len(sorted)].line_number <= e.line_number
         THEN Append(sorted, e)
         ELSE Append(InsertErr(SubSeq(sorted, 1, Len(sorted) - 1), e),
                     sorted[Len(sorted)])

RECURSIVE sort_by_line_number(_)
sort_by_line_number(errors) ==
    IF errors = <<>> THEN <<>>
    ELSE InsertErr(sort_by_line_number(SubSeq(errors, 1, Len(errors) - 1)),
                   errors[Len(errors)])

(***************************************************************************)
(* The program state.                                                      *)
(*   args, disk     the command line and the files it names (inputs)       *)
(*   pc             where main is                                          *)
(*   puml_files     PumlValidator.puml_files                               *)
(*   arg_idx        files consumed by the loop of PumlValidator::new       *)
(*   puml_file, puml_buffer, reading_uml   the locals of PumlFile::new     *)
(*   file_idx, puml_idx   the loops of PumlValidator/PumlFile::validate    *)
(*                        and ::print_errors                               *)
(*   check          the call of Puml::validate that is running (1..8),     *)
(*                  NumChecks + 1 for the final sort                       *)
(*   line_number    the enumerate() counter of the running line loop       *)
(*   opening_stack  the local of validate_open_close                       *)
(*   stdout, stderr what println! and eprintln! have written               *)
(*   validate_calls how often the caller has called                        *)
(*                  PumlValidator::validate (main.rs calls it once)        *)
(***************************************************************************)
VARIABLES args, disk, pc, puml_files, arg_idx, puml_file, puml_buffer,
          reading_uml, file_idx, puml_idx, check, line_number,
          opening_stack, stdout, stderr, validate_calls

vars == <<args, disk, pc, puml_files, arg_idx, puml_file, puml_buffer,
          reading_uml, file_idx, puml_idx, check, line_number,
          opening_stack, stdout, stderr, validate_calls>>

inputVars == <<args, disk>>
extractVars == <<puml_file, puml_buffer, reading_uml>>
validateVars == <<check, opening_stack>>

\* The state in which main starts on command line a and file system d.
Start(a, d) ==
    /\ args = a
    /\ disk = d
    /\ pc = "main"
    /\ puml_files = <<>>
    /\ arg_idx = 0
    /\ puml_file = [filename |-> "", pumls |-> <<>>]
    /\ puml_buffer = Puml_new
    /\ reading_uml = FALSE
    /\ file_idx = 0
    /\ puml_idx = 0
    /\ check = 1
    /\ line_number = 0
    /\ opening_stack = <<>>
    /\ stdout = <<>>
    /\ stderr = <<>>
    /\ validate_calls = 0

(***************************************************************************)
(* main.rs: main.  No argument prints the usage; otherwise                 *)
(* PumlValidator::new starts with an empty puml_files.                     *)
(***************************************************************************)
Main ==
    /\ pc = "main"
    /\ IF Len(args) = 0
       THEN /\ stdout' = Append(stdout, <<"usage: pumlchk <file1> <file2> ...">>)
            /\ pc' = "done"
       ELSE /\ pc' = "new"
            /\ UNCHANGED stdout
    /\ UNCHANGED <<inputVars, validate_calls, puml_files, arg_idx,
                   extractVars, file_idx, puml_idx, validateVars, line_number,
                   stderr>>

\* A variant of PumlFile_new_read in which a file that cannot be read ends
\* the loop of PumlValidator::new.
PumlFile_new_read_Abort ==
    /\ pc = "new"
    /\ arg_idx < Len(args)
    /\ LET path == args[arg_idx + 1] IN
       IF disk[path].ok
       THEN /\ pc' = "extract"
            /\ reading_uml' = FALSE
            /\ puml_file' = [filename |-> path, pumls |-> <<>>]
            /\ puml_buffer' = Puml_new
            /\ line_number' = 0
            /\ UNCHANGED <<arg_idx, stderr>>
       ELSE /\ stderr' = Append(stderr, <<"ignoring file", path>>)
            /\ arg_idx' = Len(args)
            /\ UNCHANGED <<pc, extractVars, line_number>>
    /\ UNCHANGED <<inputVars, validate_calls, puml_files, file_idx, puml_idx,
                   validateVars, stdout>>

(***************************************************************************)
(* PumlFile::new, up to the line loop: fs::read_to_string.  A file that    *)
(* cannot be read is reported on stderr and gives None, which              *)
(* PumlValidator::new skips.                                               *)
(***************************************************************************)
PumlFile_new_read ==
    /\ pc = "new"
    /\ arg_idx < Len(args)
    /\ LET path == args[arg_idx + 1] IN
       IF disk[path].ok
       THEN /\ pc' = "extract"
            /\ reading_uml' = FALSE
            /\ puml_file' = [filename |-> path, pumls |-> <<>>]
            /\ puml_buffer' = Puml_new
            /\ line_number' = 0
            /\ UNCHANGED <<arg_idx, stderr>>
       ELSE /\ stderr' = Append(stderr, <<"ignoring file", path>>)
            /\ arg_idx' = arg_idx + 1
            /\ UNCHANGED <<pc, extractVars, line_number>>
    /\ UNCHANGED <<inputVars, validate_calls, puml_files, file_idx, puml_idx,
                   validateVars, stdout>>

\* A variant of ExtractStep that tests for @startuml before it pushes the
\* line, so that the delimiter becomes the first line of its section.
ExtractStep_StartLineKept(line, n, reading, buffer, file) ==
    LET isEnd == starts_with(line, "@enduml")
        isStart == starts_with(line, "@startuml")
        endErr == isEnd /\ ~reading
        reading1 == IF isEnd THEN FALSE ELSE reading
        file1 == IF isEnd /\ reading
                 THEN [file EXCEPT !.pumls = Append(@, buffer)]
                 ELSE file
        buffer1 == IF isEnd /\ reading THEN Puml_new ELSE buffer
        startErr == isStart /\ reading1
        buffer2 == IF isStart /\ ~reading1
                   THEN [buffer1 EXCEPT !.starting_line = n]
                   ELSE buffer1
        reading2 == IF isStart THEN TRUE ELSE reading1
        buffer3 == IF reading2
                   THEN [buffer2 EXCEPT !.lines = Append(@, line)]
                   ELSE buffer2
    IN  [err |-> IF endErr THEN "end" ELSE IF startErr THEN "start" ELSE "",
         reading_uml |-> reading2,
         puml_buffer |-> buffer3,
         puml_file |-> file1]

\* A variant of ExtractStep that lets a stray @enduml pass.
ExtractStep_StrayEndIgnored(line, n, reading, buffer, file) ==
    LET isEnd == starts_with(line, "@enduml")
        isStart == starts_with(line, "@startuml")
        reading1 == IF isEnd THEN FALSE ELSE reading
        file1 == IF isEnd /\ reading
                 THEN [file EXCEPT !.pumls = Append(@, buffer)]
                 ELSE file
        buffer1 == IF isEnd /\ reading THEN Puml_new ELSE buffer
        buffer2 == IF reading1
                   THEN [buffer1 EXCEPT !.lines = Append(@, line)]
                   ELSE buffer1
        startErr == isStart /\ reading1
        buffer3 == IF isStart /\ ~reading1
                   THEN [buffer2 EXCEPT !.starting_line = n]
                   ELSE buffer2
        reading3 == IF isStart THEN TRUE ELSE reading1
    IN  [err |-> IF startErr THEN "start" ELSE "",
         reading_uml |-> reading3,
         puml_buffer |-> buffer3,
         puml_file |-> file1]

(***************************************************************************)
(* One iteration of the line loop of PumlFile::new.  The three ifs run in  *)
(* order on the trimmed line; either error branch returns None at once.    *)
(***************************************************************************)
ExtractStep(line, n, reading, buffer, file) ==
    LET isEnd == starts_with(line, "@enduml")
        isStart == starts_with(line, "@startuml")
        endErr == isEnd /\ ~reading
        reading1 == IF isEnd THEN FALSE ELSE reading
        file1 == IF isEnd /\ reading
                 THEN [file EXCEPT !.pumls = Append(@, buffer)]
                 ELSE file
        buffer1 == IF isEnd /\ reading THEN Puml_new ELSE buffer
        buffer2 == IF reading1
                   THEN [buffer1 EXCEPT !.lines = Append(@, line)]
                   ELSE buffer1
        startErr == isStart /\ reading1
        buffer3 == IF isStart /\ ~reading1
                   THEN [buffer2 EXCEPT !.starting_line = n]
                   ELSE buffer2
        reading3 == IF isStart THEN TRUE ELSE reading1
    IN  [err |-> IF endErr THEN "end" ELSE IF startErr THEN "start" ELSE "",
         reading_uml |-> reading3,
         puml_buffer |-> buffer3,
         puml_file |-> file1]

PumlFile_new_line ==
    /\ pc = "extract"
    /\ LET path == args[arg_idx + 1]
           content == disk[path].lines
       IN
       /\ line_number < Len(content)
       /\ LET line == trim(content[line_number + 1])
              r == ExtractStep(line, line_number, reading_uml, puml_buffer,
                               puml_file)
          IN
          IF r.err = ""
          THEN /\ reading_uml' = r.reading_uml
               /\ puml_buffer' = r.puml_buffer
               /\ puml_file' = r.puml_file
               /\ line_number' = line_number + 1
               /\ UNCHANGED <<pc, arg_idx, stderr>>
          ELSE /\ stderr' = Append(stderr,
                       <<"skipping file", path, line_number, line,
                         IF r.err = "end"
                         THEN "closing uml section without starting one before with @startuml"
                         ELSE "opening another uml section without closing the previous">>)
               /\ pc' = "new"
               /\ arg_idx' = arg_idx + 1
               /\ UNCHANGED <<extractVars, line_number>>
    /\ UNCHANGED <<inputVars, validate_calls, puml_files, file_idx, puml_idx,
                   validateVars, stdout>>

\* A variant of PumlFile_new_return that closes a section still being
\* read when the file ends.
PumlFile_new_return_FlushOpen ==
    /\ pc = "extract"
    /\ line_number = Len(disk[args[arg_idx + 1]].lines)
    /\ puml_files' =
          Append(puml_files,
                 IF reading_uml
                 THEN [puml_file EXCEPT !.pumls = Append(@, puml_buffer)]
                 ELSE puml_file)
    /\ arg_idx' = arg_idx + 1
    /\ pc' = "new"
    /\ UNCHANGED <<inputVars, validate_calls, extractVars, file_idx, puml_idx,
                   validateVars, line_number, stdout, stderr>>

(***************************************************************************)
(* The line loop of PumlFile::new is over: Some(puml_file), which          *)
(* PumlValidator::new pushes.  A section still being read is dropped.      *)
(***************************************************************************)
PumlFile_new_return ==
    /\ pc = "extract"
    /\ line_number = Len(disk[args[arg_idx + 1]].lines)
    /\ puml_files' = Append(puml_files, puml_file)
    /\ arg_idx' = arg_idx + 1
    /\ pc' = "new"
    /\ UNCHANGED <<inputVars, validate_calls, extractVars, file_idx, puml_idx,
                   validateVars, line_number, stdout, stderr>>

\* PumlValidator::new returns; main calls PumlValidator::validate.
PumlValidator_new_return ==
    /\ pc = "new"
    /\ arg_idx = Len(args)
    /\ pc' = "validate"
    /\ file_idx' = 0
    /\ puml_idx' = 0
    /\ check' = 1
    /\ line_number' = 0
    /\ opening_stack' = <<>>
    /\ validate_calls' = 1
    /\ UNCHANGED <<inputVars, puml_files, arg_idx, extractVars, stdout,
                   stderr>>

(***************************************************************************)
(* PumlValidator::validate, PumlFile::validate and Puml::validate: the     *)
(* section being validated is puml_files[file_idx + 1].pumls[puml_idx + 1].*)
(***************************************************************************)
InPuml ==
    /\ pc = "validate"
    /\ file_idx < Len(puml_files)
    /\ puml_idx < Len(puml_files[file_idx + 1].pumls)

CurPuml == puml_files[file_idx + 1].pumls[puml_idx + 1]

\* self.errors.push(e) for each e of errs, in order
PushErrors(errs) ==
    puml_files' = [puml_files EXCEPT
                     ![file_idx + 1].pumls[puml_idx + 1].errors = @ \o errs]

\* A variant of PatternStep that forgets the validation pattern.
PatternStep_NoValidation(rule, line, n) ==
    IF is_match(rule.simple_pattern, line)
    THEN <<PumlErr(n, PatternMsg(rule.msg))>>
    ELSE <<>>

(***************************************************************************)
(* The body of the line loop of validate_pattern: the diagnostics pushed   *)
(* for (trimmed) line number n.                                            *)
(***************************************************************************)
PatternStep(rule, line, n) ==
    IF is_match(rule.simple_pattern, line)
    THEN IF ~is_match(rule.validation_pattern, line)
         THEN <<PumlErr(n, PatternMsg(rule.msg))>>
         ELSE <<>>
    ELSE <<>>

Puml_validate_pattern_line ==
    /\ InPuml
    /\ check <= NumChecks
    /\ Checks[check].kind = "pattern"
    /\ line_number < Len(CurPuml.lines)
    /\ PushErrors(PatternStep(Checks[check],
                              trim(CurPuml.lines[line_number + 1]),
                              line_number))
    /\ line_number' = line_number + 1
    /\ UNCHANGED <<inputVars, validate_calls, pc, arg_idx, extractVars,
                   file_idx, puml_idx, validateVars, stdout, stderr>>

\* validate_pattern returns; Puml::validate goes on to its next call.
Puml_validate_pattern_return ==
    /\ InPuml
    /\ check <= NumChecks
    /\ Checks[check].kind = "pattern"
    /\ line_number = Len(CurPuml.lines)
    /\ check' = check + 1
    /\ line_number' = 0
    /\ opening_stack' = <<>>
    /\ UNCHANGED <<inputVars, validate_calls, pc, puml_files, arg_idx,
                   extractVars, file_idx, puml_idx, stdout, stderr>>

\* Variants of OpenCloseStep and Unclosed with a slip each, used to show
\* that the properties below depend on the step: a close that does not
\* pop, a close that pops the oldest open, a stray close that is not
\* reported, only the top of the stack reported as unclosed.
OpenCloseStep_NoPop(c, line, n, stack) ==
    IF is_match(c.open, line)
    THEN [stack |-> Append(stack, n), errs |-> <<>>]
    ELSE IF c.middle.some /\ is_match(c.middle.re, line)
    THEN [stack |-> stack,
          errs |-> IF stack = <<>>
                   THEN <<PumlErr(n, NoOpeningMsg(c.open_text))>>
                   ELSE <<>>]
    ELSE IF is_match(c.close, line)
    THEN IF stack # <<>>
         THEN [stack |-> stack, errs |-> <<>>]
         ELSE [stack |-> stack,
               errs |-> <<PumlErr(n, NoOpeningMsg(c.open_text))>>]
    ELSE [stack |-> stack, errs |-> <<>>]

OpenCloseStep_Fifo(c, line, n, stack) ==
    IF is_match(c.open, line)
    THEN [stack |-> Append(stack, n), errs |-> <<>>]
    ELSE IF c.middle.some /\ is_match(c.middle.re, line)
    THEN [stack |-> stack,
          errs |-> IF stack = <<>>
                   THEN <<PumlErr(n, NoOpeningMsg(c.open_text))>>
                   ELSE <<>>]
    ELSE IF is_match(c.close, line)
    THEN IF stack # <<>>
         THEN [stack |-> Tail(stack), errs |-> <<>>]
         ELSE [stack |-> stack,
               errs |-> <<PumlErr(n, NoOpeningMsg(c.open_text))>>]
    ELSE [stack |-> stack, errs |-> <<>>]

OpenCloseStep_SilentStrayClose(c, line, n, stack) ==
    IF is_match(c.open, line)
    THEN [stack |-> Append(stack, n), errs |-> <<>>]
    ELSE IF c.middle.some /\ is_match(c.middle.re, line)
    THEN [stack |-> stack,
          errs |-> IF stack = <<>>
                   THEN <<PumlErr(n, NoOpeningMsg(c.open_text))>>
                   ELSE <<>>]
    ELSE IF is_match(c.close, line)
    THEN [stack |-> SubSeq(stack, 1, Len(stack) - 1), errs |-> <<>>]
    ELSE [stack |-> stack, errs |-> <<>>]

\* A variant of OpenCloseStep in which a middle line closes the block it
\* stands in.
OpenCloseStep_MiddlePops(c, line, n, stack) ==
    IF is_match(c.open, line)
    THEN [stack |-> Append(stack, n), errs |-> <<>>]
    ELSE IF (c.middle.some /\ is_match(c.middle.re, line))
            \/ is_match(c.close, line)
    THEN IF stack # <<>>
         THEN [stack |-> SubSeq(stack, 1, Len(stack) - 1), errs |-> <<>>]
         ELSE [stack |-> stack,
               errs |-> <<PumlErr(n, NoOpeningMsg(c.open_text))>>]
    ELSE [stack |-> stack, errs |-> <<>>]

\* A variant of OpenCloseStep in which a close without a waiting open is
\* reported and also left on the stack.
OpenCloseStep_StrayClosePushed(c, line, n, stack) ==
    IF is_match(c.open, line)
    THEN [stack |-> Append(stack, n), errs |-> <<>>]
    ELSE IF c.middle.some /\ is_match(c.middle.re, line)
    THEN [stack |-> stack,
          errs |-> IF stack = <<>>
                   THEN <<PumlErr(n, NoOpeningMsg(c.open_text))>>
                   ELSE <<>>]
    ELSE IF is_match(c.close, line)
    THEN IF stack # <<>>
         THEN [stack |-> SubSeq(stack, 1, Len(stack) - 1), errs |-> <<>>]
         ELSE [stack |-> Append(stack, n),
               errs |-> <<PumlErr(n, NoOpeningMsg(c.open_text))>>]
    ELSE [stack |-> stack, errs |-> <<>>]

\* A variant of OpenCloseStep that tests the close pattern first.
OpenCloseStep_CloseFirst(c, line, n, stack) ==
    IF is_match(c.close, line)
    THEN IF stack # <<>>
         THEN [stack |-> SubSeq(stack, 1, Len(stack) - 1), errs |-> <<>>]
         ELSE [stack |-> stack,
               errs |-> <<PumlErr(n, NoOpeningMsg(c.open_text))>>]
    ELSE IF is_match(c.open, line)
    THEN [stack |-> Append(stack, n), errs |-> <<>>]
    ELSE IF c.middle.some /\ is_match(c.middle.re, line)
    THEN [stack |-> stack,
          errs |-> IF stack = <<>>
                   THEN <<PumlErr(n, NoOpeningMsg(c.open_text))>>
                   ELSE <<>>]
    ELSE [stack |-> stack, errs |-> <<>>]

(***************************************************************************)
(* The body of the line loop of validate_open_close for (trimmed) line     *)
(* number n: the opening stack after it and the diagnostics pushed.        *)
(***************************************************************************)
OpenCloseStep(c, line, n, stack) ==
    IF is_match(c.open, line)
    THEN [stack |-> Append(stack, n), errs |-> <<>>]
    ELSE IF c.middle.some /\ is_match(c.middle.re, line)
    THEN [stack |-> stack,
          errs |-> IF stack = <<>>
                   THEN <<PumlErr(n, NoOpeningMsg(c.open_text))>>
                   ELSE <<>>]
    ELSE IF is_match(c.close, line)
    THEN IF stack # <<>>
         THEN [stack |-> SubSeq(stack, 1, Len(stack) - 1), errs |-> <<>>]
         ELSE [stack |-> stack,
               errs |-> <<PumlErr(n, NoOpeningMsg(c.open_text))>>]
    ELSE [stack |-> stack, errs |-> <<>>]

Puml_validate_open_close_line ==
    /\ InPuml
    /\ check <= NumChecks
    /\ Checks[check].kind = "open_close"
    /\ line_number < Len(CurPuml.lines)
    /\ LET r == OpenCloseStep(Checks[check],
                              trim(CurPuml.lines[line_number + 1]),
                              line_number, opening_stack)
       IN  /\ opening_stack' = r.stack
           /\ PushErrors(r.errs)
    /\ line_number' = line_number + 1
    /\ UNCHANGED <<inputVars, validate_calls, pc, arg_idx, extractVars,
                   file_idx, puml_idx, check, stdout, stderr>>

(***************************************************************************)
(* After the line loop, `for line_number in opening_stack`: one            *)
(* diagnostic per entry left, in stack order; the stack is consumed.       *)
(***************************************************************************)
Unclosed_TopOnly(c, stack) ==
    IF stack = <<>> THEN <<>>
    ELSE <<PumlErr(stack[Len(stack)], NoClosingMsg(c.close_text))>>

\* A variant of Unclosed that reports 1-based line numbers.
Unclosed_OneBased(c, stack) ==
    [k \in 1..Len(stack) |->
        PumlErr(stack[k] + 1, NoClosingMsg(c.close_text))]

Unclosed(c, stack) ==
    [k \in 1..Len(stack) |-> PumlErr(stack[k], NoClosingMsg(c.close_text))]

\* A variant of Puml_validate_open_close_return in which the opening stack
\* outlives the call, as a field of the section would.
Puml_validate_open_close_return_KeepStack ==
    /\ InPuml
    /\ check <= NumChecks
    /\ Checks[check].kind = "open_close"
    /\ line_number = Len(CurPuml.lines)
    /\ PushErrors(Unclosed(Checks[check], opening_stack))
    /\ opening_stack' = opening_stack
    /\ check' = check + 1
    /\ line_number' = 0
    /\ UNCHANGED <<inputVars, validate_calls, pc, arg_idx, extractVars,
                   file_idx, puml_idx, stdout, stderr>>

\* validate_open_close after its line loop: every index left on the
\* opening stack is reported, and the stack, a local, is dropped.
Puml_validate_open_close_return ==
    /\ InPuml
    /\ check <= NumChecks
    /\ Checks[check].kind = "open_close"
    /\ line_number = Len(CurPuml.lines)
    /\ PushErrors(Unclosed(Checks[check], opening_stack))
    /\ opening_stack' = <<>>
    /\ check' = check + 1
    /\ line_number' = 0
    /\ UNCHANGED <<inputVars, validate_calls, pc, arg_idx, extractVars,
                   file_idx, puml_idx, stdout, stderr>>

\* The end of Puml::validate: the sort; PumlFile::validate takes the next.
Puml_validate_sort ==
    /\ InPuml
    /\ check = NumChecks + 1
    /\ puml_files' = [puml_files EXCEPT
                        ![file_idx + 1].pumls[puml_idx + 1].errors =
                            sort_by_line_number(@)]
    /\ puml_idx' = puml_idx + 1
    /\ check' = 1
    /\ UNCHANGED <<inputVars, validate_calls, pc, arg_idx, extractVars,
                   file_idx, line_number, opening_stack, stdout, stderr>>

\* PumlFile::validate returns; PumlValidator::validate takes the next file.
PumlFile_validate_return ==
    /\ pc = "validate"
    /\ file_idx < Len(puml_files)
    /\ puml_idx = Len(puml_files[file_idx + 1].pumls)
    /\ file_idx' = file_idx + 1
    /\ puml_idx' = 0
    /\ UNCHANGED <<inputVars, validate_calls, pc, puml_files, arg_idx,
                   extractVars, validateVars, line_number, stdout, stderr>>

\* PumlValidator::validate returns; main calls PumlValidator::print_errors.
PumlValidator_validate_return ==
    /\ pc = "validate"
    /\ file_idx = Len(puml_files)
    /\ pc' = "print"
    /\ file_idx' = 0
    /\ puml_idx' = 0
    /\ UNCHANGED <<inputVars, validate_calls, puml_files, arg_idx,
                   extractVars, validateVars, line_number, stdout, stderr>>

(***************************************************************************)
(* PumlValidator::validate is public and takes &mut self, so a caller may  *)
(* call it again on the validator it has already validated, before it      *)
(* prints.  main.rs does not: this action is part of NextAgain only.       *)
(***************************************************************************)
MaxValidateCalls == 2

PumlValidator_validate_again ==
    /\ pc = "print"
    /\ file_idx = 0
    /\ validate_calls < MaxValidateCalls
    /\ pc' = "validate"
    /\ file_idx' = 0
    /\ puml_idx' = 0
    /\ check' = 1
    /\ line_number' = 0
    /\ opening_stack' = <<>>
    /\ validate_calls' = validate_calls + 1
    /\ UNCHANGED <<inputVars, puml_files, arg_idx, extractVars, stdout,
                   stderr>>

(***************************************************************************)
(* The reporter.  PumlFile::print_errors prints the file name and then     *)
(* each section; Puml::print_errors indexes self.lines with each           *)
(* diagnostic's line number, which panics when it is out of bounds.        *)
(***************************************************************************)
PumlFile_print_errors ==
    /\ pc = "print"
    /\ file_idx < Len(puml_files)
    /\ stdout' = Append(stdout, <<"In file", puml_files[file_idx + 1].filename>>)
    /\ pc' = "print_pumls"
    /\ puml_idx' = 0
    /\ UNCHANGED <<inputVars, validate_calls, puml_files, arg_idx,
                   extractVars, file_idx, validateVars, line_number, stderr>>

ErrorLine(puml, e) ==
    <<"diagnostic", e.line_number, puml.lines[e.line_number + 1], e.msg>>

Puml_print_errors ==
    /\ pc = "print_pumls"
    /\ puml_idx < Len(puml_files[file_idx + 1].pumls)
    /\ LET puml == puml_files[file_idx + 1].pumls[puml_idx + 1]
           head == <<<<"PlantUML starting at line", puml.starting_line>>>>
                   \o (IF Len(puml.errors) = 0 THEN <<<<"OK!">>>> ELSE <<>>)
           bad == {k \in 1..Len(puml.errors) :
                      puml.errors[k].line_number >= Len(puml.lines)}
           good == IF bad = {} THEN Len(puml.errors)
                   ELSE (CHOOSE k \in bad : \A j \in bad : k <= j) - 1
           body == [k \in 1..good |-> ErrorLine(puml, puml.errors[k])]
       IN  /\ stdout' = stdout \o head \o body
           /\ IF bad = {}
              THEN /\ puml_idx' = puml_idx + 1
                   /\ pc' = pc
              ELSE /\ pc' = "panic"
                   /\ puml_idx' = puml_idx
    /\ UNCHANGED <<inputVars, validate_calls, puml_files, arg_idx,
                   extractVars, file_idx, validateVars, line_number, stderr>>

\* PumlFile::print_errors returns; PumlValidator::print_errors goes on.
PumlFile_print_errors_return ==
    /\ pc = "print_pumls"
    /\ puml_idx = Len(puml_files[file_idx + 1].pumls)
    /\ pc' = "print"
    /\ file_idx' = file_idx + 1
    /\ puml_idx' = 0
    /\ UNCHANGED <<inputVars, validate_calls, puml_files, arg_idx,
                   extractVars, validateVars, line_number, stdout, stderr>>

\* PumlValidator::print_errors returns and main ends.
PumlValidator_print_errors_return ==
    /\ pc = "print"
    /\ file_idx = Len(puml_files)
    /\ pc' = "done"
    /\ UNCHANGED <<inputVars, validate_calls, puml_files, arg_idx,
                   extractVars, file_idx, puml_idx, validateVars, line_number,
                   stdout, stderr>>

Next ==
    \/ Main
    \/ PumlFile_new_read
    \/ PumlFile_new_line
    \/ PumlFile_new_return
    \/ PumlValidator_new_return
    \/ Puml_validate_pattern_line
    \/ Puml_validate_pattern_return
    \/ Puml_validate_open_close_line
    \/ Puml_validate_open_close_return
    \/ Puml_validate_sort
    \/ PumlFile_validate_return
    \/ PumlValidator_validate_return
    \/ PumlFile_print_errors
    \/ Puml_print_errors
    \/ PumlFile_print_errors_return
    \/ PumlValidator_print_errors_return

\* The steps of a caller that may validate more than once.
NextAgain == Next \/ PumlValidator_validate_again

(***************************************************************************)
(* Inputs.  A file on disk is what fs::read_to_string and str::lines give: *)
(* unreadable, or its lines.                                               *)
(***************************************************************************)
MaxLines == 4
MaxChars == 5
MaxFileLines == 4

SeqsUpTo(S, n) == UNION {[1..k -> S] : k \in 0..n}

RECURSIVE StringsOfLen(_, _)
StringsOfLen(alphabet, n) ==
    IF n = 0 THEN {""}
    ELSE {s \o c : s \in StringsOfLen(alphabet, n - 1), c \in alphabet}

StringsUpTo(alphabet, n) == UNION {StringsOfLen(alphabet, k) : k \in 0..n}

Readable(lines) == [ok |-> TRUE, lines |-> lines]
Unreadable == [ok |-> FALSE, lines |-> <<>>]

\* One file holding one section with the given lines.
OneSection(body) ==
    [args |-> <<"a.puml">>,
     disk |-> [p \in {"a.puml"} |->
                  Readable(<<"@startuml">> \o body \o <<"@enduml">>)]]

\* The marker lines of each construct, as written in a file (indented or
\* with trailing blanks), and lines that several checks flag.
Vocabularies ==
    {{"if (a) then (b)", "  else (c)", "endif"},
     {"switch (x)", "  case (1)", "endswitch "},
     {"repeat", "repeat while (x) is (y)", ":a;"},
     {"while (x)", "endwhile (y)", "endwhile"},
     {"fork", "fork again", "end fork"},
     {"split", "fork again", "end split"},
     {"endif;", ":foo;", ":foo"}}

RuleAlphabet == {":", ";", "a"}

SectionInputs ==
    {OneSection(b) : b \in UNION {SeqsUpTo(V, MaxLines) : V \in Vocabularies}}
    \cup {OneSection(<<l>>) : l \in StringsUpTo(RuleAlphabet, MaxChars)}

\* Whole runs: one file of delimiter lines, alone or beside a second file.
FileVocabulary == {"@startuml", " @enduml", "fork"}

FileContents ==
    {Readable(l) : l \in SeqsUpTo(FileVocabulary, MaxFileLines)}
    \cup {Unreadable}

OtherFiles ==
    {Readable(<<"@startuml", "fork", "@enduml">>),
     Readable(<<"@enduml", "@startuml">>),
     Unreadable}

ProgramInputs ==
    {[args |-> <<>>, disk |-> <<>>]}
    \cup {[args |-> <<"a.puml">>, disk |-> [p \in {"a.puml"} |-> a]] :
            a \in FileContents}
    \cup {[args |-> order,
           disk |-> [p \in {"a.puml", "b.puml"} |->
                        IF p = "a.puml" THEN a ELSE b]] :
            order \in {<<"a.puml", "b.puml">>, <<"b.puml", "a.puml">>},
            a \in FileContents, b \in OtherFiles}

\* One file of two sections, each of up to MaxSectionLines lines: an
\* open, its close, and the close of another construct.
MaxSectionLines == 2

SectionVocabulary == {"fork", "end fork", "endif"}

TwoSections(b1, b2) ==
    [args |-> <<"a.puml">>,
     disk |-> [p \in {"a.puml"} |->
                  Readable(<<"@startuml">> \o b1 \o <<"@enduml", "@startuml">>
                               \o b2 \o <<"@enduml">>)]]

TwoSectionInputs ==
    {TwoSections(b1, b2) :
        b1 \in SeqsUpTo(SectionVocabulary, MaxSectionLines),
        b2 \in SeqsUpTo(SectionVocabulary, MaxSectionLines)}

\* For a caller that validates again: the whole runs, and sections of
\* lines that the pattern rules and the block checks flag in each way.
MixedVocabulary == {"endif;", ":foo", "fork again"}

AgainInputs ==
    ProgramInputs
    \cup {OneSection(b) : b \in SeqsUpTo(MixedVocabulary, MaxSectionLines)}

Init == \E in \in ProgramInputs : Start(in.args, in.disk)

Spec == Init /\ [][Next]_vars

InitSection == \E in \in SectionInputs : Start(in.args, in.disk)

SpecSection == InitSection /\ [][Next]_vars

\* A caller that validates up to MaxValidateCalls times and then prints.
InitAgain == \E in \in AgainInputs : Start(in.args, in.disk)

SpecAgain == InitAgain /\ [][NextAgain]_vars

InitTwoSections == \E in \in TwoSectionInputs : Start(in.args, in.disk)

SpecTwoSections == InitTwoSections /\ [][Next]_vars

(***************************************************************************)
(* Vocabulary of the properties.  These definitions describe what the      *)
(* checks are meant to compute, by counting, without a stack.              *)
(***************************************************************************)
OpenCloseChecks == {k \in 1..NumChecks : Checks[k].kind = "open_close"}
PatternChecks == {k \in 1..NumChecks : Checks[k].kind = "pattern"}

\* The category of a line for a construct: open, then middle, then close.
LineClass(c, line) ==
    IF is_match(c.open, line) THEN "open"
    ELSE IF c.middle.some /\ is_match(c.middle.re, line) THEN "middle"
    ELSE IF is_match(c.close, line) THEN "close"
    ELSE "none"

\* The trimmed lines that occur in the inputs, and the category of each
\* for each construct, computed once.
KnownLines ==
    {trim(l) : l \in UNION Vocabularies \cup FileVocabulary
                      \cup StringsUpTo(RuleAlphabet, MaxChars)}

ClassTable ==
    [k \in OpenCloseChecks |->
        [l \in KnownLines |-> LineClass(Checks[k], l)]]

\* The categories of the lines of a section for check k.
Classes(k, lines) ==
    [i \in 1..Len(lines) |-> ClassTable[k][trim(lines[i])]]

\* How many of cls[a..b] are of category kind.
Count(cls, kind, a, b) ==
    Cardinality({i \in a..b : i \in DOMAIN cls /\ cls[i] = kind})

\* Opens minus closes in cls[a..b].
Net(cls, a, b) == Count(cls, "open", a, b) - Count(cls, "close", a, b)

\* Balanced: no prefix closes more than it opens, the whole closes all it
\* opens, and a middle has an open before it that is not closed yet.
Balanced(cls) ==
    /\ \A n \in 1..Len(cls) : Net(cls, 1, n) >= 0
    /\ Net(cls, 1, Len(cls)) = 0
    /\ \A i \in 1..Len(cls) : cls[i] = "middle" => Net(cls, 1, i) > 0

\* The open at position i is consumed by a close among cls[i+1..n]: some
\* stretch after it closes more than it opens.
Consumed(cls, i, n) == \E j \in (i + 1)..n : Net(cls, i + 1, j) < 0

\* The positions of cls[1..n] whose open is still waiting for its close.
Pending(cls, n) ==
    {i \in 1..n : cls[i] = "open" /\ ~Consumed(cls, i, n)}

\* The elements of a set of numbers in ascending order.
RECURSIVE Ascending(_)
Ascending(S) ==
    IF S = {} THEN <<>>
    ELSE LET m == CHOOSE x \in S : \A y \in S : x <= y
         IN  <<m>> \o Ascending(S \ {m})

\* The diagnostics of errors whose message is one of msgs, in order.
WithMsg(errors, msgs) == SelectSeq(errors, LAMBDA e : e.msg \in msgs)

OpeningMsgOf(k) == NoOpeningMsg(Checks[k].open_text)
ClosingMsgOf(k) == NoClosingMsg(Checks[k].close_text)

\* All sections extracted so far, as <<file, section>> positions.
Sections ==
    UNION {{<<f, p>> : p \in 1..Len(puml_files[f].pumls)} :
              f \in 1..Len(puml_files)}

PumlAt(fp) == puml_files[fp[1]].pumls[fp[2]]

\* Check k is running on section fp; ScanEnded: its line loop is over.
Running(fp, k) ==
    /\ pc = "validate"
    /\ fp = <<file_idx + 1, puml_idx + 1>>
    /\ check = k

ScanEnded(fp, k) == Running(fp, k) /\ line_number = Len(PumlAt(fp).lines)

\* Check k has returned for section fp: the section is behind the cursor
\* of the validate loops, or check has moved past k within it.
Returned(fp, k) ==
    \/ pc \in {"print", "print_pumls", "done", "panic"}
    \/ /\ pc = "validate"
       /\ \/ fp[1] < file_idx + 1
          \/ fp[1] = file_idx + 1 /\ fp[2] < puml_idx + 1
          \/ fp = <<file_idx + 1, puml_idx + 1>> /\ check > k

(***************************************************************************)
(* C1.  Block matcher, balanced input: when the lines of a section are     *)
(* balanced for a construct (categories by priority open, middle, close),  *)
(* that construct's check emits no diagnostic, neither while scanning nor   *)
(* afterwards, and its opening stack is empty when the scan ends.          *)
(***************************************************************************)
C1_BalancedNoDiagnostics ==
    \A fp \in Sections : \A k \in OpenCloseChecks :
        Balanced(Classes(k, PumlAt(fp).lines)) =>
            /\ WithMsg(PumlAt(fp).errors, {OpeningMsgOf(k), ClosingMsgOf(k)})
                   = <<>>
            /\ ScanEnded(fp, k) => opening_stack = <<>>

\* A balanced section with an open, a middle and a close, at the end of
\* the scan of its construct.
C1_Witness ==
    \E fp \in Sections : \E k \in OpenCloseChecks :
        LET cls == Classes(k, PumlAt(fp).lines) IN
        /\ ScanEnded(fp, k)
        /\ Balanced(cls)
        /\ Count(cls, "open", 1, Len(cls)) >= 1
        /\ Count(cls, "middle", 1, Len(cls)) >= 1
        /\ Count(cls, "close", 1, Len(cls)) >= 1

(***************************************************************************)
(* C2.  Each construct's own marker lines: a section made of the open      *)
(* marker, then any number of middle markers (where the construct has      *)
(* one), then the close marker gets no diagnostic from that construct's    *)
(* check.  The markers are the lines the labels of Puml::validate name.    *)
(***************************************************************************)
Markers ==
    [k \in OpenCloseChecks |->
        CASE Checks[k].open_text = "if (*) then (*)" ->
                [open |-> "if (a) then (b)", middle |-> {"else (c)"},
                 close |-> "endif"]
          [] Checks[k].open_text = "switch (*)" ->
                [open |-> "switch (x)", middle |-> {"case (1)"},
                 close |-> "endswitch"]
          [] Checks[k].open_text = "repeat" ->
                [open |-> "repeat", middle |-> {},
                 close |-> "repeat while (x) is (y)"]
          [] Checks[k].open_text = "while (*) [is (*)]" ->
                [open |-> "while (x)", middle |-> {},
                 close |-> "endwhile (y)"]
          [] Checks[k].open_text = "fork" ->
                [open |-> "fork", middle |-> {"fork again"},
                 close |-> "end fork"]
          [] Checks[k].open_text = "split" ->
                [open |-> "split", middle |-> {"fork again"},
                 close |-> "end split"]]

\* lines is one well-formed block of construct k written with its markers.
MarkerBlock(k, lines) ==
    /\ Len(lines) >= 2
    /\ trim(lines[1]) = Markers[k].open
    /\ trim(lines[Len(lines)]) = Markers[k].close
    /\ \A i \in 2..(Len(lines) - 1) : trim(lines[i]) \in Markers[k].middle

C2_MarkerBlockNoDiagnostics ==
    \A fp \in Sections : \A k \in OpenCloseChecks :
        MarkerBlock(k, PumlAt(fp).lines) /\ Returned(fp, k) =>
            WithMsg(PumlAt(fp).errors, {OpeningMsgOf(k), ClosingMsgOf(k)})
                = <<>>

(***************************************************************************)
(* C3.  Unclosed opens: once a construct's check has returned, its         *)
(* "no closing" diagnostics are exactly the open lines that no close       *)
(* consumed, one each, in ascending order; a consumed open has none; none  *)
(* is emitted before the scan is over; and the stack is empty afterwards.  *)
(***************************************************************************)
ClosingDiagnostics(k, cls) ==
    LET at == Ascending(Pending(cls, Len(cls)))
    IN  [j \in 1..Len(at) |-> PumlErr(at[j] - 1, ClosingMsgOf(k))]

C3_UnclosedOpens ==
    \A fp \in Sections : \A k \in OpenCloseChecks :
        LET cls == Classes(k, PumlAt(fp).lines)
            got == WithMsg(PumlAt(fp).errors, {ClosingMsgOf(k)})
        IN  /\ Running(fp, k) => got = <<>>
            /\ Returned(fp, k) => got = ClosingDiagnostics(k, cls)
            /\ Running(fp, k + 1) /\ line_number = 0 => opening_stack = <<>>

\* A check has just returned on a section with an open that a close
\* consumed and an open that none did.
C3_Witness ==
    \E fp \in Sections : \E k \in OpenCloseChecks :
        LET cls == Classes(k, PumlAt(fp).lines) IN
        /\ Running(fp, k + 1) /\ line_number = 0
        /\ Pending(cls, Len(cls)) # {}
        /\ \E i \in 1..Len(cls) : cls[i] = "open" /\ Consumed(cls, i, Len(cls))

(***************************************************************************)
(* C4.  Close without open: scanning a close line while no earlier open is *)
(* waiting pushes exactly one "no opening" diagnostic at that line and     *)
(* leaves the stack empty; the stack always holds exactly the waiting      *)
(* opens, which do not depend on stray closes before them; and             *)
(* ["switch (x)", "endswitch", "endswitch"] gets exactly one diagnostic    *)
(* from the switch check, its "no opening" message, at index 2.            *)
(***************************************************************************)
ZeroBased(positions) == [j \in 1..Len(positions) |-> positions[j] - 1]

Trimmed(lines) == [i \in 1..Len(lines) |-> trim(lines[i])]

C4_StrayCloseStep ==
    \A fp \in Sections : \A k \in OpenCloseChecks :
        LET cls == Classes(k, PumlAt(fp).lines) IN
        (/\ Running(fp, k)
         /\ line_number < Len(cls)
         /\ cls[line_number + 1] = "close"
         /\ Pending(cls, line_number) = {})
        => /\ PumlAt(fp).errors' =
                  Append(PumlAt(fp).errors,
                         PumlErr(line_number, OpeningMsgOf(k)))
           /\ opening_stack' = <<>>

C4_StackIsWaitingOpens ==
    \A fp \in Sections : \A k \in OpenCloseChecks :
        Running(fp, k) =>
            opening_stack =
                ZeroBased(Ascending(Pending(Classes(k, PumlAt(fp).lines),
                                            line_number)))

C4_SwitchExample ==
    \A fp \in Sections : \A k \in OpenCloseChecks :
        (/\ Returned(fp, k)
         /\ Checks[k].open_text = "switch (*)"
         /\ Trimmed(PumlAt(fp).lines) = <<"switch (x)", "endswitch", "endswitch">>)
        => WithMsg(PumlAt(fp).errors, {OpeningMsgOf(k), ClosingMsgOf(k)})
               = <<PumlErr(2, "<- no opening switch (*) found")>>

C4_CloseWithoutOpen ==
    /\ [](C4_StackIsWaitingOpens /\ C4_SwitchExample)
    /\ [][C4_StrayCloseStep]_vars

\* A check has returned on close, open, close: one diagnostic, on the
\* stray close, and the later pair matched.
C4_Witness ==
    \E fp \in Sections : \E k \in OpenCloseChecks :
        /\ Returned(fp, k)
        /\ Classes(k, PumlAt(fp).lines) = <<"close", "open", "close">>
        /\ WithMsg(PumlAt(fp).errors, {OpeningMsgOf(k), ClosingMsgOf(k)})
               = <<PumlErr(0, OpeningMsgOf(k))>>

(***************************************************************************)
(* C5.  LIFO nesting: scanning a close line while opens are waiting        *)
(* removes the latest of them from the stack and nothing else, and pushes  *)
(* no diagnostic.  So open open close close gets no diagnostic, and open   *)
(* open close gets one, "no closing", at the first (outer) open.           *)
(***************************************************************************)
Latest(S) == CHOOSE x \in S : \A y \in S : y <= x

C5_CloseStep ==
    \A fp \in Sections : \A k \in OpenCloseChecks :
        LET cls == Classes(k, PumlAt(fp).lines)
            waiting == Pending(cls, line_number)
        IN
        (/\ Running(fp, k)
         /\ line_number < Len(cls)
         /\ cls[line_number + 1] = "close"
         /\ waiting # {})
        => /\ opening_stack' =
                  ZeroBased(Ascending(waiting \ {Latest(waiting)}))
           /\ opening_stack # <<>>
           /\ opening_stack[Len(opening_stack)] = Latest(waiting) - 1
           /\ PumlAt(fp).errors' = PumlAt(fp).errors

C5_NestingExamples ==
    \A fp \in Sections : \A k \in OpenCloseChecks :
        LET cls == Classes(k, PumlAt(fp).lines)
            got == WithMsg(PumlAt(fp).errors,
                           {OpeningMsgOf(k), ClosingMsgOf(k)})
        IN  Returned(fp, k) =>
              /\ cls = <<"open", "open", "close", "close">> => got = <<>>
              /\ cls = <<"open", "open", "close">>
                    => got = <<PumlErr(0, ClosingMsgOf(k))>>

C5_Lifo == []C5_NestingExamples /\ [][C5_CloseStep]_vars

\* A close has just been scanned with two opens waiting: the outer one
\* is what is left.
C5_Witness ==
    \E fp \in Sections : \E k \in OpenCloseChecks :
        LET cls == Classes(k, PumlAt(fp).lines) IN
        /\ Running(fp, k)
        /\ line_number = 3
        /\ SubSeq(cls, 1, 3) = <<"open", "open", "close">>
        /\ opening_stack = <<0>>

(***************************************************************************)
(* C6.  Pattern rule engine: while a rule's check runs and after it has    *)
(* returned, its diagnostics are exactly one per scanned line whose        *)
(* trimmed text matches the trigger and not the validation pattern, at     *)
(* that line's index, in ascending order, and none for any other line.     *)
(***************************************************************************)
RuleTable ==
    [k \in PatternChecks |->
        [l \in KnownLines |->
            [simple |-> is_match(Checks[k].simple_pattern, l),
             validation |-> is_match(Checks[k].validation_pattern, l)]]]

\* The positions among lines[1..n] that rule k is meant to flag.
Flagged(k, lines, n) ==
    {i \in 1..n : /\ RuleTable[k][trim(lines[i])].simple
                  /\ ~RuleTable[k][trim(lines[i])].validation}

PatternDiagnostics(k, lines, n) ==
    LET at == Ascending(Flagged(k, lines, n))
    IN  [j \in 1..Len(at) |-> PumlErr(at[j] - 1, "<- " \o Checks[k].msg)]

C6_PatternRule ==
    \A fp \in Sections : \A k \in PatternChecks :
        LET lines == PumlAt(fp).lines
            got == WithMsg(PumlAt(fp).errors, {"<- " \o Checks[k].msg})
        IN  /\ Running(fp, k) =>
                  got = PatternDiagnostics(k, lines, line_number)
            /\ Returned(fp, k) =>
                  got = PatternDiagnostics(k, lines, Len(lines))

\* A rule has returned on a section with two lines it flags, a line that
\* matches both patterns and a line that does not match the trigger.
C6_Witness ==
    \E fp \in Sections : \E k \in PatternChecks :
        LET lines == PumlAt(fp).lines
            row(i) == RuleTable[k][trim(lines[i])]
        IN  /\ Returned(fp, k)
            /\ Cardinality(Flagged(k, lines, Len(lines))) >= 2
            /\ \E i \in 1..Len(lines) : row(i).simple /\ row(i).validation
            /\ \E i \in 1..Len(lines) : ~row(i).simple

(***************************************************************************)
(* C7.  Missing-terminator rule: once the rule has returned, a line is     *)
(* flagged by it if and only if it contains ':' and does not end with ';'. *)
(***************************************************************************)
Contains(s, c) == \E i \in 1..Len(s) : CharAt(s, i) = c

EndsWith(s, c) == Len(s) > 0 /\ CharAt(s, Len(s)) = c

RuleWithMsg(msg) == CHOOSE k \in PatternChecks : Checks[k].msg = msg

SemicolonCheck ==
    RuleWithMsg("missing ';' at the end of the line (doesnt check multiline)")

ColonCheck ==
    RuleWithMsg("missing ':' at the beginning of the line (doesnt check multiline)")

\* Line i (1-based) of section fp carries a diagnostic of rule k.
FlaggedBy(fp, k, i) ==
    \E j \in 1..Len(PumlAt(fp).errors) :
        PumlAt(fp).errors[j] = PumlErr(i - 1, "<- " \o Checks[k].msg)

C7_MissingTerminator ==
    \A fp \in Sections :
        Returned(fp, SemicolonCheck) =>
            \A i \in 1..Len(PumlAt(fp).lines) :
                LET l == trim(PumlAt(fp).lines[i]) IN
                FlaggedBy(fp, SemicolonCheck, i)
                    <=> (Contains(l, ":") /\ ~EndsWith(l, ";"))

(***************************************************************************)
(* C8.  Missing-prefix rule: once the rule has returned, a line is flagged *)
(* by it if and only if it ends with ';' and has no ':' before that.       *)
(***************************************************************************)
C8_MissingPrefix ==
    \A fp \in Sections :
        Returned(fp, ColonCheck) =>
            \A i \in 1..Len(PumlAt(fp).lines) :
                LET l == trim(PumlAt(fp).lines[i]) IN
                FlaggedBy(fp, ColonCheck, i)
                    <=> (/\ EndsWith(l, ";")
                         /\ ~Contains(SubSeq(l, 1, Len(l) - 1), ":"))

\* The rule has returned on a line it flags although the line has a ';'
\* before its last character.
C8_Witness ==
    \E fp \in Sections :
        /\ Returned(fp, ColonCheck)
        /\ \E i \in 1..Len(PumlAt(fp).lines) :
              LET l == trim(PumlAt(fp).lines[i]) IN
              /\ FlaggedBy(fp, ColonCheck, i)
              /\ Len(l) >= 3
              /\ Contains(SubSeq(l, 1, Len(l) - 1), ";")

(***************************************************************************)
(* C9.  After Puml::validate on a freshly extracted section the            *)
(* diagnostics are the stable sort by line index of the outputs of the     *)
(* eight checks, concatenated in the order of the calls: nothing dropped,  *)
(* merged or added, equal line indexes in emission order.  Before the sort *)
(* they are that concatenation.                                            *)
(***************************************************************************)
\* What construct k is meant to report while scanning: a middle or close
\* line met while no open is waiting.
OpeningDiagnostics(k, cls) ==
    LET at == Ascending({i \in 1..Len(cls) :
                            /\ cls[i] \in {"middle", "close"}
                            /\ Pending(cls, i - 1) = {}})
    IN  [j \in 1..Len(at) |-> PumlErr(at[j] - 1, OpeningMsgOf(k))]

ExpectedOutput(k, lines) ==
    IF k \in PatternChecks
    THEN PatternDiagnostics(k, lines, Len(lines))
    ELSE OpeningDiagnostics(k, Classes(k, lines))
             \o ClosingDiagnostics(k, Classes(k, lines))

RECURSIVE ExpectedUpTo(_, _)
ExpectedUpTo(k, lines) ==
    IF k = 0 THEN <<>>
    ELSE ExpectedUpTo(k - 1, lines) \o ExpectedOutput(k, lines)

\* The entries of errs by ascending line index, each index in errs' order.
RECURSIVE ByLineFrom(_, _, _)
ByLineFrom(errs, n, last) ==
    IF n > last THEN <<>>
    ELSE SelectSeq(errs, LAMBDA e : e.line_number = n)
             \o ByLineFrom(errs, n + 1, last)

StableSorted(errs, lines) == ByLineFrom(errs, 0, Len(lines))

C9_SortedConcatenation ==
    \A fp \in Sections :
        LET lines == PumlAt(fp).lines
            all == ExpectedUpTo(NumChecks, lines)
        IN  /\ Running(fp, NumChecks + 1) => PumlAt(fp).errors = all
            /\ Returned(fp, NumChecks + 1) =>
                  PumlAt(fp).errors = StableSorted(all, lines)

\* A validated section whose diagnostics the sort had to reorder and
\* where one line carries diagnostics of two checks.
C9_Witness ==
    \E fp \in Sections :
        LET errs == PumlAt(fp).errors IN
        /\ Returned(fp, NumChecks + 1)
        /\ errs # ExpectedUpTo(NumChecks, PumlAt(fp).lines)
        /\ \E j \in 1..(Len(errs) - 1) :
              /\ errs[j].line_number = errs[j + 1].line_number
              /\ errs[j].msg # errs[j + 1].msg

(***************************************************************************)
(* C10.  Section extractor, hard failure: a readable file in which an      *)
(* @enduml line comes while no section is open, or an @startuml line       *)
(* while one is, never gets into puml_files and is never printed, whatever *)
(* sections it closed before; once it has been processed it has been       *)
(* reported on stderr as skipped.                                          *)
(***************************************************************************)
IsStart(l) == starts_with(trim(l), "@startuml")
IsEnd(l) == starts_with(trim(l), "@enduml")

\* The delimiter line before position i, or 0.
PrevDelimiter(lines, i) ==
    LET before == {j \in 1..(i - 1) : IsStart(lines[j]) \/ IsEnd(lines[j])}
    IN  IF before = {} THEN 0 ELSE Latest(before)

\* Some delimiter repeats the kind of the delimiter before it, or the
\* first delimiter is an @enduml.
Malformed(lines) ==
    \E i \in 1..Len(lines) :
        LET p == PrevDelimiter(lines, i) IN
        \/ IsEnd(lines[i]) /\ (p = 0 \/ IsEnd(lines[p]))
        \/ IsStart(lines[i]) /\ p # 0 /\ IsStart(lines[p])

C10_HardFailure ==
    \A i \in 1..Len(args) :
        disk[args[i]].ok /\ Malformed(disk[args[i]].lines) =>
            /\ \A f \in 1..Len(puml_files) : puml_files[f].filename # args[i]
            /\ \A o \in 1..Len(stdout) :
                  stdout[o][1] = "In file" => stdout[o][2] # args[i]
            /\ arg_idx >= i =>
                  \E e \in 1..Len(stderr) :
                      stderr[e][1] = "skipping file" /\ stderr[e][2] = args[i]

\* The run is over; a file that closed a section and then failed was
\* skipped, and another file was validated and printed.
C10_Witness ==
    /\ pc = "done"
    /\ Len(puml_files) >= 1
    /\ \E i \in 1..Len(args) :
          LET lines == disk[args[i]].lines IN
          /\ disk[args[i]].ok
          /\ Malformed(lines)
          /\ Len(lines) >= 3
          /\ IsStart(lines[1])
          /\ IsEnd(lines[2])

(***************************************************************************)
(* What PumlFile::new, Puml::validate and print_errors make of one file,   *)
(* written from the file's content alone.                                  *)
(***************************************************************************)
Earliest(S) == CHOOSE i \in S : \A j \in S : i <= j

Accepted(file) == file.ok /\ ~Malformed(file.lines)

\* The @enduml line that closes the section opened at line s, or 0.
ClosingLine(lines, s) ==
    LET ends == {e \in (s + 1)..Len(lines) : IsEnd(lines[e])}
    IN  IF ends = {} THEN 0 ELSE Earliest(ends)

\* The closed sections of an accepted file, in file order, not validated.
ClosedSections(lines) ==
    LET starts == Ascending({s \in 1..Len(lines) :
                                IsStart(lines[s]) /\ ClosingLine(lines, s) # 0})
    IN  [j \in 1..Len(starts) |->
            LET s == starts[j]
                e == ClosingLine(lines, s)
            IN  [starting_line |-> s - 1,
                 lines |-> [i \in 1..(e - s - 1) |-> trim(lines[s + i])],
                 errors |-> <<>>]]

Validated(puml) ==
    [puml EXCEPT !.errors =
        StableSorted(ExpectedUpTo(NumChecks, puml.lines), puml.lines)]

\* The PumlFile of an accepted file after extraction, and after validate.
Extracted(path, file) ==
    [filename |-> path, pumls |-> ClosedSections(file.lines)]

AloneResult(path, file) ==
    LET secs == ClosedSections(file.lines)
    IN  [filename |-> path,
         pumls |-> [j \in 1..Len(secs) |-> Validated(secs[j])]]

RECURSIVE Flatten(_)
Flatten(seqs) ==
    IF seqs = <<>> THEN <<>> ELSE Head(seqs) \o Flatten(Tail(seqs))

\* What print_errors writes for a validated section, and for a file.
PumlReport(puml) ==
    <<<<"PlantUML starting at line", puml.starting_line>>>>
        \o (IF puml.errors = <<>> THEN <<<<"OK!">>>>
            ELSE [k \in 1..Len(puml.errors) |->
                     ErrorLine(puml, puml.errors[k])])

FileReport(pf) ==
    <<<<"In file", pf.filename>>>>
        \o Flatten([j \in 1..Len(pf.pumls) |-> PumlReport(pf.pumls[j])])

\* The arguments whose file is accepted, in command-line order.
Survivors(a) == SelectSeq(a, LAMBDA path : Accepted(disk[path]))

(***************************************************************************)
(* C11.  File isolation: a file that cannot be read or whose extraction    *)
(* fails is skipped, and every other file is extracted, validated and      *)
(* reported.  puml_files holds the accepted files in command-line order;   *)
(* what is extracted, stored as diagnostics and printed for an accepted    *)
(* file depends on that file's content only, so it is what a run with      *)
(* that file as the only argument gives.                                   *)
(***************************************************************************)
C11_FileIsolation ==
    LET surv == Survivors(args)
        done == Survivors(SubSeq(args, 1, arg_idx))
    IN
    /\ pc \in {"new", "extract"} =>
          puml_files = [f \in 1..Len(done) |->
                           Extracted(done[f], disk[done[f]])]
    /\ pc \in {"validate", "print", "print_pumls", "done"} =>
          /\ Len(puml_files) = Len(surv)
          /\ \A f \in 1..Len(surv) :
                /\ puml_files[f].filename = surv[f]
                /\ (pc # "validate" \/ f < file_idx + 1) =>
                      puml_files[f] = AloneResult(surv[f], disk[surv[f]])
    /\ pc = "done" /\ args # <<>> =>
          stdout = Flatten([f \in 1..Len(surv) |->
                               FileReport(AloneResult(surv[f],
                                                      disk[surv[f]]))])

\* The run is over on two arguments; the first file was skipped, the
\* second one was accepted and a diagnostic of it was printed.
C11_Witness ==
    /\ pc = "done"
    /\ Len(args) = 2
    /\ ~Accepted(disk[args[1]])
    /\ Len(puml_files) = 1
    /\ puml_files[1].filename = args[2]
    /\ \E j \in 1..Len(puml_files[1].pumls) :
          puml_files[1].pumls[j].errors # <<>>
    /\ \E o \in 1..Len(stdout) : stdout[o][1] = "diagnostic"

(***************************************************************************)
(* C12.  Idempotence of validation: when validate has been called again    *)
(* on the same PumlValidator, every section's diagnostic list is what it   *)
(* was after the first call (the sorted output of the eight checks on the  *)
(* section's lines), in content, length and order.                         *)
(***************************************************************************)
C12_Idempotent ==
    validate_calls >= 2 /\ pc \in {"print", "print_pumls", "done"} =>
        \A fp \in Sections :
            PumlAt(fp).errors = Validated(PumlAt(fp)).errors

(***************************************************************************)
(* C13.  Section isolation: every check of every section starts its scan   *)
(* with an empty opening stack, and the diagnostics of a validated section *)
(* are a function of that section's lines (two sections with the same      *)
(* lines carry the same diagnostics, whatever stands in the other section  *)
(* of the file).  An open that no close of its own construct in its own    *)
(* section consumes is reported in that section; a close in a later        *)
(* section or a close of another construct does not consume it, and a      *)
(* close without a waiting open in its own section is reported.            *)
(***************************************************************************)
C13_SectionIsolation ==
    /\ \A fp \in Sections : \A k \in 1..NumChecks :
          Running(fp, k) /\ line_number = 0 => opening_stack = <<>>
    /\ \A fp \in Sections :
          Returned(fp, NumChecks + 1) =>
              /\ PumlAt(fp).errors = Validated(PumlAt(fp)).errors
              /\ \A fq \in Sections :
                    /\ Returned(fq, NumChecks + 1)
                    /\ PumlAt(fq).lines = PumlAt(fp).lines
                    => PumlAt(fq).errors = PumlAt(fp).errors
    /\ \A fp \in Sections : \A k \in OpenCloseChecks :
          Returned(fp, k) =>
              LET lines == PumlAt(fp).lines
                  cls == Classes(k, lines)
                  NoneIn(S, class) == \A j \in S : cls[j] # class
                  Has(err) == \E e \in 1..Len(PumlAt(fp).errors) :
                                  PumlAt(fp).errors[e] = err
              IN  \A i \in 1..Len(lines) :
                      /\ (cls[i] = "open"
                              /\ NoneIn((i + 1)..Len(lines), "close"))
                         => Has(PumlErr(i - 1, ClosingMsgOf(k)))
                      /\ (cls[i] = "close" /\ NoneIn(1..(i - 1), "open"))
                         => Has(PumlErr(i - 1, OpeningMsgOf(k)))

\* Both sections of a file are validated: the first holds an open and
\* then the close of another construct, the second the open's close.
\* The open is reported in the first section and the close in the second.
C13_Witness ==
    /\ pc = "done"
    /\ \E f \in 1..Len(puml_files) :
          LET pumls == puml_files[f].pumls IN
          /\ Len(pumls) = 2
          /\ pumls[1].lines = <<"fork", "endif">>
          /\ pumls[2].lines = <<"end fork">>
          /\ \E e \in 1..Len(pumls[1].errors) :
                pumls[1].errors[e] =
                    PumlErr(0, NoClosingMsg(ForkConstruct.close_text))
          /\ \E e \in 1..Len(pumls[2].errors) :
                pumls[2].errors[e] =
                    PumlErr(0, NoOpeningMsg(ForkConstruct.open_text))

(***************************************************************************)
(* C14.  Middle lines: scanning a line that a check classifies as middle   *)
(* leaves the opening stack as it is, and appends "no opening" at that     *)
(* line's index exactly when the stack is empty, nothing otherwise.  When  *)
(* the check has returned, its "no opening" diagnostics at middle lines    *)
(* are one for each middle line that stood outside every open block, in    *)
(* line order: k such lines give k diagnostics.                            *)
(***************************************************************************)
C14_MiddleStep ==
    \A fp \in Sections : \A k \in OpenCloseChecks :
        LET cls == Classes(k, PumlAt(fp).lines) IN
        (/\ Running(fp, k)
         /\ line_number < Len(cls)
         /\ cls[line_number + 1] = "middle")
        => /\ opening_stack' = opening_stack
           /\ PumlAt(fp).errors' =
                 IF opening_stack = <<>>
                 THEN Append(PumlAt(fp).errors,
                             PumlErr(line_number, OpeningMsgOf(k)))
                 ELSE PumlAt(fp).errors

C14_EachReported ==
    \A fp \in Sections : \A k \in OpenCloseChecks :
        LET cls == Classes(k, PumlAt(fp).lines)
            outside == Ascending({i \in 1..Len(cls) :
                                     /\ cls[i] = "middle"
                                     /\ Pending(cls, i - 1) = {}})
            got == SelectSeq(WithMsg(PumlAt(fp).errors, {OpeningMsgOf(k)}),
                             LAMBDA e : cls[e.line_number + 1] = "middle")
        IN  Returned(fp, k) =>
               got = [j \in 1..Len(outside) |->
                         PumlErr(outside[j] - 1, OpeningMsgOf(k))]

C14_MiddleLines == []C14_EachReported /\ [][C14_MiddleStep]_vars

\* A check has returned on a section of two middle lines outside any
\* block and one inside a block: two diagnostics, at the first two.
C14_Witness ==
    \E fp \in Sections : \E k \in OpenCloseChecks :
        /\ Returned(fp, k)
        /\ Classes(k, PumlAt(fp).lines)
              = <<"middle", "middle", "open", "middle">>
        /\ WithMsg(PumlAt(fp).errors, {OpeningMsgOf(k)})
              = <<PumlErr(0, OpeningMsgOf(k)), PumlErr(1, OpeningMsgOf(k))>>

(***************************************************************************)
(* C15.  One diagnostic per line and invocation: among the diagnostics     *)
(* that one block check has pushed to a section, those of its scan ("no    *)
(* opening") and those after its scan ("no closing") taken together, no    *)
(* two carry the same line index.                                          *)
(***************************************************************************)
C15_OnePerLine ==
    \A fp \in Sections : \A k \in OpenCloseChecks :
        LET got == WithMsg(PumlAt(fp).errors,
                           {OpeningMsgOf(k), ClosingMsgOf(k)})
        IN  \A a \in 1..Len(got) : \A b \in 1..Len(got) :
                a # b => got[a].line_number # got[b].line_number

\* A check has returned with diagnostics of both kinds: a close that
\* found no open, then an open that found no close.
C15_Witness ==
    \E fp \in Sections : \E k \in OpenCloseChecks :
        /\ Returned(fp, k)
        /\ Len(PumlAt(fp).lines) >= 2
        /\ SubSeq(Classes(k, PumlAt(fp).lines), 1, 2) = <<"close", "open">>
        /\ \E e \in 1..Len(PumlAt(fp).errors) :
              PumlAt(fp).errors[e] = PumlErr(0, OpeningMsgOf(k))
        /\ \E e \in 1..Len(PumlAt(fp).errors) :
              PumlAt(fp).errors[e].msg = ClosingMsgOf(k)

(***************************************************************************)
(* C16.  Category priority: scanning a line that matches the open pattern  *)
(* pushes its index and adds no diagnostic, whether or not the line also   *)
(* matches the middle or the close pattern; a line that matches the        *)
(* middle pattern and not the open pattern leaves the stack alone, also    *)
(* when it matches the close pattern; a line that matches none of the      *)
(* three changes neither the stack nor the diagnostics.                    *)
(***************************************************************************)
\* Which of the three patterns of each construct each line matches,
\* computed once.
MatchTable ==
    [k \in OpenCloseChecks |->
        [l \in KnownLines |->
            [open |-> is_match(Checks[k].open, l),
             middle |-> Checks[k].middle.some
                            /\ is_match(Checks[k].middle.re, l),
             close |-> is_match(Checks[k].close, l)]]]

C16_PriorityStep ==
    \A fp \in Sections : \A k \in OpenCloseChecks :
        Running(fp, k) /\ line_number < Len(PumlAt(fp).lines) =>
            LET m == MatchTable[k][PumlAt(fp).lines[line_number + 1]] IN
            /\ m.open =>
                  /\ opening_stack' = Append(opening_stack, line_number)
                  /\ PumlAt(fp).errors' = PumlAt(fp).errors
            /\ ~m.open /\ m.middle =>
                  /\ opening_stack' = opening_stack
                  /\ opening_stack # <<>> =>
                        PumlAt(fp).errors' = PumlAt(fp).errors
            /\ ~m.open /\ ~m.middle /\ ~m.close =>
                  /\ opening_stack' = opening_stack
                  /\ PumlAt(fp).errors' = PumlAt(fp).errors

C16_CategoryPriority == [][C16_PriorityStep]_vars

\* A line that matches the open pattern and the close pattern of the
\* running check has just been scanned while an open was waiting: both
\* are on the stack, and nothing was reported.
C16_Witness ==
    \E fp \in Sections : \E k \in OpenCloseChecks :
        /\ Running(fp, k)
        /\ line_number = 2
        /\ LET m == MatchTable[k][PumlAt(fp).lines[2]] IN
           m.open /\ m.close
        /\ opening_stack = <<0, 1>>
        /\ WithMsg(PumlAt(fp).errors, {OpeningMsgOf(k)}) = <<>>

(***************************************************************************)
(* C17.  No cross-construct interference: when a section is one            *)
(* well-formed block of a construct, written with that construct's own     *)
(* open, middle and close marker lines, no check of another construct      *)
(* adds a diagnostic to it, neither "no opening" nor "no closing".         *)
(***************************************************************************)
C17_NoInterference ==
    \A fp \in Sections : \A k \in OpenCloseChecks :
        MarkerBlock(k, PumlAt(fp).lines) =>
            \A other \in OpenCloseChecks \ {k} :
                WithMsg(PumlAt(fp).errors,
                        {OpeningMsgOf(other), ClosingMsgOf(other)}) = <<>>

(***************************************************************************)
(* C18.  Section extraction result: for every file in puml_files, the      *)
(* sections are as many as the file has @enduml lines; each section's      *)
(* starting_line is the 0-based index of an @startuml line, its lines are  *)
(* the trimmed file lines from the one after that line up to the one       *)
(* before the next @enduml line, without either delimiter, and each        *)
(* section begins after the @enduml line of the section before it.        *)
(***************************************************************************)
C18_ExtractionResult ==
    \A f \in 1..Len(puml_files) :
        LET file == disk[puml_files[f].filename].lines
            pumls == puml_files[f].pumls
            StartOf(j) == pumls[j].starting_line + 1
            EndOf(j) == StartOf(j) + Len(pumls[j].lines) + 1
        IN  /\ Len(pumls) = Cardinality({i \in 1..Len(file) : IsEnd(file[i])})
            /\ \A j \in 1..Len(pumls) :
                  /\ StartOf(j) \in 1..Len(file)
                  /\ IsStart(file[StartOf(j)])
                  /\ EndOf(j) \in 1..Len(file)
                  /\ IsEnd(file[EndOf(j)])
                  /\ \A i \in 1..Len(pumls[j].lines) :
                        /\ pumls[j].lines[i] = trim(file[StartOf(j) + i])
                        /\ ~IsEnd(file[StartOf(j) + i])
                        /\ ~IsStart(file[StartOf(j) + i])
                  /\ j > 1 => EndOf(j - 1) < StartOf(j)

\* The run is over; an accepted file has a section that does not start
\* on the file's first line and has a line between its delimiters.
C18_Witness ==
    /\ pc = "done"
    /\ \E f \in 1..Len(puml_files) :
          /\ Len(puml_files[f].pumls) = 1
          /\ puml_files[f].pumls[1].starting_line >= 1
          /\ puml_files[f].pumls[1].lines # <<>>

(***************************************************************************)
(* C19.  Diagnostic indices are in range: whatever number of times         *)
(* validate has been called, every diagnostic stored for a section has a   *)
(* line index i with 0 <= i < number of lines of the section, so that      *)
(* print_errors never indexes self.lines out of bounds.                    *)
(***************************************************************************)
C19_IndicesInRange ==
    /\ \A fp \in Sections :
          \A e \in 1..Len(PumlAt(fp).errors) :
              /\ 0 <= PumlAt(fp).errors[e].line_number
              /\ PumlAt(fp).errors[e].line_number < Len(PumlAt(fp).lines)
    /\ pc # "panic"

\* validate has been called a second time and print_errors has printed a
\* rule's diagnostic for the last line of a section that also carries a
\* "no opening" and a "no closing" diagnostic.
C19_Witness ==
    /\ pc = "done"
    /\ validate_calls >= 2
    /\ \E fp \in Sections :
          LET puml == PumlAt(fp) IN
          /\ Len(puml.lines) >= 2
          /\ \E e \in 1..Len(puml.errors) :
                /\ puml.errors[e].line_number = Len(puml.lines) - 1
                /\ puml.errors[e].msg = PatternMsg(MissingSemicolonRule.msg)
                /\ \E o \in 1..Len(stdout) :
                      stdout[o] = ErrorLine(puml, puml.errors[e])
          /\ \E e \in 1..Len(puml.errors) :
                puml.errors[e].msg = NoOpeningMsg(SplitConstruct.open_text)
          /\ \E e \in 1..Len(puml.errors) :
                puml.errors[e].msg = NoClosingMsg(ForkConstruct.close_text)

(***************************************************************************)
(* C20.  Unterminated trailing section: a readable file whose delimiters   *)
(* alternate correctly and whose last delimiter is an @startuml line is    *)
(* accepted and nothing about it is written to stderr; its PumlFile holds  *)
(* one section per @enduml line, each ending before that last @startuml    *)
(* line, so the lines after it are in no section, are not validated and    *)
(* not printed.                                                            *)
(***************************************************************************)
Delimiters(lines) ==
    {i \in 1..Len(lines) : IsStart(lines[i]) \/ IsEnd(lines[i])}

Unterminated(lines) ==
    /\ Delimiters(lines) # {}
    /\ IsStart(lines[Latest(Delimiters(lines))])

C20_TrailingSectionDropped ==
    \A i \in 1..Len(args) :
        LET lines == disk[args[i]].lines
            last == Latest(Delimiters(lines))
            ends == {e \in 1..Len(lines) : IsEnd(lines[e])}
        IN
        disk[args[i]].ok /\ ~Malformed(lines) /\ Unterminated(lines) =>
            /\ \A e \in 1..Len(stderr) : stderr[e][2] # args[i]
            /\ arg_idx >= i =>
                  \E f \in 1..Len(puml_files) :
                      /\ puml_files[f].filename = args[i]
                      /\ Len(puml_files[f].pumls) = Cardinality(ends)
                      /\ \A p \in 1..Len(puml_files[f].pumls) :
                            LET puml == puml_files[f].pumls[p] IN
                            puml.starting_line + Len(puml.lines) + 2 < last
            /\ pc = "done" /\ Len(args) = 1 =>
                  /\ Cardinality({o \in 1..Len(stdout) :
                        stdout[o][1] = "PlantUML starting at line"})
                        = Cardinality(ends)
                  /\ \A o \in 1..Len(stdout) :
                        stdout[o] # <<"PlantUML starting at line", last - 1>>

\* The run is over on a file that closed one section and then opened a
\* section with a line that the fork check would flag; the file was
\* accepted with the closed section only and nothing is on stderr.
C20_Witness ==
    /\ pc = "done"
    /\ Len(args) = 1
    /\ stderr = <<>>
    /\ Len(puml_files) = 1
    /\ Len(puml_files[1].pumls) = 1
    /\ LET lines == disk[args[1]].lines IN
       /\ Len(lines) = 4
       /\ IsStart(lines[1]) /\ IsEnd(lines[2]) /\ IsStart(lines[3])
       /\ trim(lines[4]) = "fork"
    /\ \A o \in 1..Len(stdout) : stdout[o][1] # "diagnostic"

=============================================================================
